---- MODULE Spec2Model ----
(***************************************************************************)
(* Verification model of sensor_preview_web: the throttle utility, the     *)
(* LIDAR point-cloud builder and the App / SensorManager operations.       *)
(***************************************************************************)
EXTENDS Integers, Sequences, FiniteSets, TLC

VARIABLES
  clock,      \* Date.now(), in ms
  thr,        \* closure state of one throttle(fn, delay): lastCall, timeoutId, lastArgs
  obs,        \* observer of fn: what ran, when, with which arguments
  scan,       \* one scan cycle of generatePointCloud: its configuration and ray count
  state,      \* App.state: sensors, selectedSensorId, scenario, settings
  sensors,    \* SensorManager.sensors: sensor id -> sensor object
  objects,    \* the sensor objects constructed so far (live or disposed)
  world,      \* children of the world root: sensor groups, point clouds, scenario
  sceneType,  \* Scene.currentScenarioType (size of the floor mesh)
  scenarioType, \* ScenarioManager.currentType
  hung,       \* the main thread is inside a loop that never ends
  report,     \* console.warn / alert of the last App operation
  ops,        \* number of App operations performed so far
  save,       \* App.saveTimeout, the saved state in localStorage, and whether
              \* a state change is still to be written
  preview     \* PreviewPanel.currentCamera and the camera drawn on its canvas

throttleVars == <<clock, thr, obs>>

appVars == <<state, sensors, objects, world, sceneType, scenarioType, hung,
            report, ops, save, preview>>

vars == <<clock, thr, obs, scan, state, sensors, objects, world, sceneType,
          scenarioType, hung, report, ops, save, preview>>

----------------------------------------------------------------------------
(* Bounds and program constants                                            *)

\* LidarSensor.POINT_CLOUD_THROTTLE_MS: the delay handed to throttle()
POINT_CLOUD_THROTTLE_MS == 50

\* granularity of the synthetic clock (ms per tick)
TickStep == 25

\* last instant at which a trigger may arrive
MaxTime == 250

\* triggers that may wait for one trailing run (interleaving model)
MaxWaiting == 3

\* number of trigger events in one burst
BurstSize == 100

\* argument values handed to the throttled function
MaxArg == 2

Delay == POINT_CLOUD_THROTTLE_MS

\* Date.now() is epoch time: far beyond one delay after 0
StartTime == 2 * Delay

Args == 1..MaxArg

\* lastArgs = null, timeoutId = null
NoArgs == 0

----------------------------------------------------------------------------
(* throttle(fn, delay): src/src/utils/storage.ts                            *)

\* let lastCall = 0; let timeoutId = null; let lastArgs = null
ThrottleInit == [lastCall |-> 0, timeoutId |-> FALSE, due |-> 0, lastArgs |-> NoArgs]

\* variant of Throttled: a trigger that finds the timer pending does not
\* store its arguments
ThrottledStaleArgs(t, now, args) ==
  LET timeSinceLastCall == now - t.lastCall
  IN  IF timeSinceLastCall >= Delay
        THEN [thr |-> [t EXCEPT !.lastArgs = args, !.lastCall = now],
              run |-> TRUE, args |-> args]
        ELSE IF ~t.timeoutId
          THEN [thr |-> [t EXCEPT !.lastArgs = args, !.timeoutId = TRUE,
                                  !.due = now + (Delay - timeSinceLastCall)],
                run |-> FALSE, args |-> NoArgs]
          ELSE [thr |-> t, run |-> FALSE, args |-> NoArgs]

\* variant of Throttled: the trailing timer waits a whole delay
ThrottledFullDelay(t, now, args) ==
  LET timeSinceLastCall == now - t.lastCall
      t1 == [t EXCEPT !.lastArgs = args]
  IN  IF timeSinceLastCall >= Delay
        THEN [thr |-> [t1 EXCEPT !.lastCall = now], run |-> TRUE, args |-> args]
        ELSE IF ~t.timeoutId
          THEN [thr |-> [t1 EXCEPT !.timeoutId = TRUE, !.due = now + Delay],
                run |-> FALSE, args |-> NoArgs]
          ELSE [thr |-> t1, run |-> FALSE, args |-> NoArgs]

\* the throttled(...args) wrapper: the closure state after the call, and
\* whether fn.apply(this, args) ran synchronously
Throttled(t, now, args) ==
  LET timeSinceLastCall == now - t.lastCall
      t1 == [t EXCEPT !.lastArgs = args]
  IN  IF timeSinceLastCall >= Delay
        THEN [thr |-> [t1 EXCEPT !.lastCall = now], run |-> TRUE, args |-> args]
        ELSE IF ~t.timeoutId
          THEN [thr |-> [t1 EXCEPT !.timeoutId = TRUE,
                                   !.due = now + (Delay - timeSinceLastCall)],
                run |-> FALSE, args |-> NoArgs]
          ELSE [thr |-> t1, run |-> FALSE, args |-> NoArgs]

\* the setTimeout callback of the trailing call
TrailingCallback(t, now) ==
  [thr |-> [t EXCEPT !.lastCall = now, !.timeoutId = FALSE],
   run |-> t.lastArgs # NoArgs,
   args |-> t.lastArgs]

----------------------------------------------------------------------------
(* LidarSensor.generatePointCloud: the ray grid.  Angles are in 1/100      *)
(* degree; the arithmetic of the code is followed exactly, on rationals.   *)

\* LidarSensor.MAX_RAYS_PER_FRAME
MAX_RAYS_PER_FRAME == 10000

\* result of a loop that never ends
Unbounded == -1

\* baseRayCount > MAX_RAYS_PER_FRAME, where
\* baseRayCount = channels * (hFov / angularResH) in IEEE arithmetic:
\* x/0 is +-Infinity or NaN, and NaN > n is false
BudgetExceeded(channels, hFov, angularResH) ==
  IF angularResH > 0 THEN channels * hFov > MAX_RAYS_PER_FRAME * angularResH
  ELSE IF angularResH = 0 THEN channels * hFov > 0
  ELSE channels * hFov < MAX_RAYS_PER_FRAME * angularResH

\* effectiveAngularResH, as the fraction num / den
EffectiveAngularResH(channels, hFov, angularResH) ==
  IF BudgetExceeded(channels, hFov, angularResH)
    THEN [num |-> channels * hFov, den |-> MAX_RAYS_PER_FRAME]
    ELSE [num |-> angularResH, den |-> 1]

CeilDiv(a, b) == (a + b - 1) \div b

\* iterations of
\*   for (hAngle = -hFov/2; hAngle < hFov/2; hAngle += effectiveAngularResH)
\* that is the least k with k * step >= hFov; none when hFov <= 0, and no
\* end when the step is not positive
HorizontalSteps(hFov, step) ==
  IF hFov <= 0 THEN 0
  ELSE IF step.num <= 0 THEN Unbounded
  ELSE CeilDiv(hFov * step.den, step.num)

\* rays cast by the channel loop and the horizontal loop of one cycle
RaysCast(channels, hFov, angularResH) ==
  LET steps == HorizontalSteps(hFov, EffectiveAngularResH(channels, hFov, angularResH))
  IN  IF channels <= 0 THEN 0
      ELSE IF steps = Unbounded THEN Unbounded
      ELSE channels * steps

\* no scan cycle in progress
NoScan == [channels |-> 0, hFov |-> 0, angularResH |-> 0, rays |-> 0, done |-> FALSE]

----------------------------------------------------------------------------
(* The world: floor, scenario meshes, sensor groups and point clouds.      *)
(* Lengths are in 1/10 m along one axis.                                   *)

\* sensor objects that may be constructed in one run
MaxObjects == 2

SensorIds == 1..MaxObjects

\* selectedSensorId = null
NoSensor == 0

\* a position typed into the number field, far from every mesh
FarAway == 100000

ScenarioTypes == {"household-large", "city"}

\* ScenarioManager.currentType = null
NoScenario == "none"

\* Scene.updateFloorAndMarkers: the floor plane, getScenarioFloorSize wide
FloorMesh(type) ==
  IF type = "city"
    THEN [name |-> "scene-floor", mesh |-> TRUE, pos |-> 0, radius |-> 3536]
    ELSE [name |-> "scene-floor", mesh |-> TRUE, pos |-> 0, radius |-> 141]

\* meshes of the scenario group that ScenarioManager.loadScenario adds
ScenarioMeshes(type) ==
  IF type = "city"
    THEN {[name |-> "building", mesh |-> TRUE, pos |-> 500, radius |-> 200]}
  ELSE IF type = NoScenario THEN {}
  ELSE {[name |-> "sofa", mesh |-> TRUE, pos |-> 30, radius |-> 10]}

MeshNames == {"scene-floor", "sofa", "building"}

\* the floor and the scenario meshes under the world root
WorldMeshes(scenario, floorType) ==
  {FloorMesh(floorType)} \cup ScenarioMeshes(scenario)

\* names of the sensor groups (sensor-<id>) and of the point clouds
\* (lidar-pointcloud-<id>), by their prefix
SensorNames == {"sensor-", "lidar-pointcloud-"}

\* the sensors' children of the world root: the group with the marker and
\* volume meshes of each sensor, and the THREE.Points of each LIDAR
SensorChildren(w, objs) ==
  {[name |-> "sensor-", mesh |-> TRUE, pos |-> objs[i].groupPos, radius |-> 1] :
     i \in w.groups}
  \cup {[name |-> "lidar-pointcloud-", mesh |-> FALSE, pos |-> 0, radius |-> 0] :
     i \in w.clouds}

\* Scene.getScenarioObjects: every child of the world root
WorldChildren(w, objs, scenario, floorType) ==
  WorldMeshes(scenario, floorType) \cup SensorChildren(w, objs)

Dist(a, b) == IF a >= b THEN a - b ELSE b - a

\* variant of RaycastTargets: no child is skipped by its name
RaycastTargetsUnfiltered(children, pos, maxRange) ==
  {m \in children :
     m.mesh /\ 2 * (Dist(pos, m.pos) - m.radius) <= 3 * maxRange}

\* the target filter: children named sensor-* or lidar-pointcloud-* are
\* skipped, of the others the meshes with
\* distance - boundingRadius <= maxRange * 1.5 are kept
RaycastTargets(children, pos, maxRange) ==
  {m \in children :
     /\ m.name \notin SensorNames
     /\ m.mesh
     /\ 2 * (Dist(pos, m.pos) - m.radius) <= 3 * maxRange}

----------------------------------------------------------------------------
(* Sensor configurations                                                   *)

\* variant of Merge: {...b, ...a}, the fields of a win
MergeKeepsOld(a, b) ==
  [f \in (DOMAIN a) \cup (DOMAIN b) |-> IF f \in DOMAIN a THEN a[f] ELSE b[f]]

\* {...a, ...b}
Merge(a, b) ==
  [f \in (DOMAIN a) \cup (DOMAIN b) |-> IF f \in DOMAIN b THEN b[f] ELSE a[f]]

\* App.addSensor: the default LIDAR (hFov 360, 16 channels, 0.2 degree,
\* 0.1 m to 100 m) and the default camera
DefaultLidar(id) ==
  [id |-> id, type |-> "lidar", enabled |-> TRUE, pos |-> 0,
   hFov |-> 36000, channels |-> 16, angularResH |-> 20,
   minRange |-> 1, maxRange |-> 1000, showPointCloud |-> TRUE]

DefaultCamera(id) ==
  [id |-> id, type |-> "camera", enabled |-> TRUE, pos |-> 0,
   hFov |-> 7000, minRange |-> 1, maxRange |-> 500]

\* LidarScanConfig invariant: channels >= 1, angularResH > 0,
\* 0 < minRange < maxRange, hFov <= 360
ValidLidarConfig(c) ==
  /\ c.angularResH > 0
  /\ "channels" \in DOMAIN c /\ c.channels >= 1
  /\ c.minRange > 0 /\ c.minRange < c.maxRange
  /\ c.hFov <= 36000

\* the loop bound `channels` of a configuration: with the field undefined
\* `ch < channels` is false at once and channels * x is NaN, as for 0
Channels(c) == IF "channels" \in DOMAIN c THEN c.channels ELSE 0

----------------------------------------------------------------------------
(* BaseSensor / LidarSensor objects                                        *)

\* throttledGeneratePointCloud() is called without arguments: args = []
EmptyArgs == 1

\* what one generatePointCloud cycle reads of the sensor
Reading(config, groupPos) == [config |-> config, groupPos |-> groupPos]

\* fields of a sensor object; fn results are [s |-> object, hung |-> BOOLEAN]
SensorObject(config) ==
  [config |-> config,
   groupPos |-> config.pos,       \* this.group.position
   disposed |-> FALSE,
   positions |-> {},              \* 'position' buffer: meshes the samples lie on
   colors |-> {},                 \* 'color' buffer, one entry per sample
   thr |-> ThrottleInit,          \* closure of throttledGeneratePointCloud
   volume |-> 0,                  \* volume / slice geometries built after the first
   cycle |-> "none",              \* how the last scan cycle ended
   targets |-> {},                \* raycastTargets of that cycle, by name
   rays |-> 0,                    \* raycaster.intersectObjects calls of that cycle
   staleRun |-> FALSE,            \* generatePointCloud ran after dispose()
   staleWrite |-> FALSE,          \* the buffers were set after dispose()
   scheduled |-> Reading(config, config.pos),  \* config and pose when the
                                  \* trailing timer was set last
   used |-> Reading(config, config.pos),       \* config and pose that the last
                                  \* generatePointCloud read
   trailing |-> FALSE,            \* that cycle was run by the trailing timer
   cloudVisible |-> TRUE,         \* this.pointCloud.visible, true in a new Points
   shared |-> TRUE]               \* this.config is the object held in state.sensors

Done(s) == [s |-> s, hung |-> FALSE]

\* generatePointCloud starts: it reads this.config and the pose of this.group
Started(s, byTimer) ==
  [s EXCEPT !.staleRun = @ \/ s.disposed,
            !.used = Reading(s.config, s.groupPos),
            !.trailing = byTimer]

SetBuffers(s, samples) ==
  [s EXCEPT !.positions = samples, !.colors = samples,
            !.staleWrite = @ \/ s.disposed]

\* variant of GeneratePointCloud: a disabled sensor still filters and casts,
\* the result is only hidden
GeneratePointCloudThenHide(s0, meshes, hits) ==
  LET s == Started(s0, FALSE)
      c == s.config
      targets == RaycastTargets(meshes, s.groupPos, c.maxRange)
      rays == RaysCast(Channels(c), c.hFov, c.angularResH)
      off == ~c.enabled \/ ~c.showPointCloud
  IN  IF targets = {}
        THEN Done([s EXCEPT !.cycle = "no targets", !.rays = 0, !.targets = {}])
      ELSE IF rays = Unbounded THEN [s |-> s, hung |-> TRUE]
      ELSE Done([SetBuffers(s, IF rays = 0 THEN {}
                               ELSE hits \cap {m.name : m \in targets})
                   EXCEPT !.cycle = IF off THEN "disabled" ELSE "cast",
                          !.rays = rays,
                          !.targets = {m.name : m \in targets}])

\* LidarSensor.generatePointCloud; hits: the meshes that
\* raycaster.intersectObjects reports for some ray of the cycle
GeneratePointCloud(s0, meshes, hits) ==
  LET s == Started(s0, FALSE)
      c == s.config
      targets == RaycastTargets(meshes, s.groupPos, c.maxRange)
      rays == RaysCast(Channels(c), c.hFov, c.angularResH)
  IN  IF ~c.enabled \/ ~c.showPointCloud
        THEN Done([SetBuffers(s, {}) EXCEPT
                     !.cycle = "disabled", !.rays = 0, !.targets = {}])
      ELSE IF targets = {}
        THEN Done([s EXCEPT !.cycle = "no targets", !.rays = 0, !.targets = {}])
      ELSE IF rays = Unbounded THEN [s |-> s, hung |-> TRUE]
      ELSE Done([SetBuffers(s, IF rays = 0 THEN {}
                               ELSE hits \cap {m.name : m \in targets})
                   EXCEPT !.cycle = "cast", !.rays = rays,
                          !.targets = {m.name : m \in targets}])

\* LidarSensor.updateVisualization (CameraSensor has no point cloud): the
\* volume and slice geometries are disposed and built anew, then the
\* throttled point-cloud generation is called
UpdateVisualization(s, now, meshes, hits) ==
  IF s.config.type # "lidar" THEN Done(s)
  ELSE LET r == Throttled(s.thr, now, EmptyArgs)
           s1 == [s EXCEPT !.thr = r.thr, !.volume = @ + 1,
                           !.cloudVisible = s.config.enabled /\ s.config.showPointCloud,
                           !.scheduled = IF ~s.thr.timeoutId /\ r.thr.timeoutId
                                           THEN Reading(s.config, s.groupPos)
                                           ELSE @]
       IN  IF r.run THEN GeneratePointCloud(s1, meshes, hits) ELSE Done(s1)

\* BaseSensor.updatePose
UpdatePose(s, pos, now, meshes, hits) ==
  UpdateVisualization([s EXCEPT !.groupPos = pos, !.config.pos = pos],
                      now, meshes, hits)

\* BaseSensor.setEnabled
SetEnabled(s, enabled) == [s EXCEPT !.config.enabled = enabled]

\* BaseSensor.updateConfig
UpdateConfig(s, changes, now, meshes, hits) ==
  LET s1 == [s EXCEPT !.config = Merge(@, changes), !.shared = FALSE]
      r1 == IF "pos" \in DOMAIN changes
              THEN UpdatePose(s1, s1.config.pos, now, meshes, hits)
              ELSE Done(s1)
      s2 == IF "enabled" \in DOMAIN changes
              THEN SetEnabled(r1.s, changes.enabled)
              ELSE r1.s
  IN  IF r1.hung THEN r1 ELSE UpdateVisualization(s2, now, meshes, hits)

\* new LidarSensor(config, scene) / new CameraSensor(config, scene): the
\* LIDAR constructor ends with a direct generatePointCloud()
NewSensor(config, meshes, hits) ==
  IF config.type = "lidar"
    THEN GeneratePointCloud(SensorObject(config), meshes, hits)
    ELSE Done(SensorObject(config))

\* variant of TrailingRun: the cycle computes from the config and pose that
\* were current when the timer was set
TrailingRunScheduledValues(s, now, meshes, hits) ==
  LET r == TrailingCallback(s.thr, now)
      s1 == [s EXCEPT !.thr = r.thr]
      old == [s1 EXCEPT !.config = s.scheduled.config,
                        !.groupPos = s.scheduled.groupPos]
      g == GeneratePointCloud(old, meshes, hits)
  IN  IF r.run
        THEN [g EXCEPT !.s.config = s.config, !.s.groupPos = s.groupPos,
                       !.s.trailing = TRUE]
        ELSE Done(s1)

\* the trailing timer of throttledGeneratePointCloud fires:
\* () => this.generatePointCloud()
TrailingRun(s, now, meshes, hits) ==
  LET r == TrailingCallback(s.thr, now)
      s1 == [s EXCEPT !.thr = r.thr]
      g == GeneratePointCloud(s1, meshes, hits)
  IN  IF r.run THEN [g EXCEPT !.s.trailing = TRUE] ELSE Done(s1)

\* variant of LidarDispose: the point cloud object stays in the world
LidarDisposeKeepsCloud(w, i) == [w EXCEPT !.groups = @ \ {i}]

\* LidarSensor.dispose / BaseSensor.dispose: the point cloud and the group
\* leave the world; nothing touches the throttle timer
LidarDispose(w, i) == [w EXCEPT !.clouds = @ \ {i}, !.groups = @ \ {i}]

----------------------------------------------------------------------------
(* SensorManager and App                                                   *)

\* the delay of App.saveStateDebounced, in ms
SAVE_DELAY_MS == 500

\* localStorage.getItem(STORAGE_KEY) of a first visit
NoSavedState == [saved |-> FALSE]

\* saveTimeout = null, nothing stored
SaveInit ==
  [timeoutId |-> FALSE, due |-> 0, storage |-> NoSavedState, unsaved |-> FALSE]

\* App.saveStateDebounced: clearTimeout(saveTimeout), then a new timer
SaveStateDebounced(sv, now) ==
  [sv EXCEPT !.timeoutId = TRUE, !.due = now + SAVE_DELAY_MS]

\* an operation assigned this.state; it calls saveStateDebounced as its last
\* statement, when it gets that far
StateChanged(sv, now, completed) ==
  IF completed THEN SaveStateDebounced([sv EXCEPT !.unsaved = TRUE], now)
  ELSE [sv EXCEPT !.unsaved = TRUE]

\* saveState(state): localStorage.setItem(STORAGE_KEY, JSON.stringify(state))
SaveState(sv, st) == [sv EXCEPT !.storage = st, !.unsaved = FALSE]

\* currentCamera = null
NoCamera == 0

\* DEFAULT_STATE, an empty SensorManager and the world after App.init
AppInit ==
  /\ state = [sensors |-> <<>>, selectedSensorId |-> NoSensor,
              scenario |-> "household-large",
              settings |-> [coordinateSystem |-> "ros"]]
  /\ sensors = <<>>
  /\ objects = <<>>
  /\ world = [groups |-> {}, clouds |-> {}]
  /\ sceneType = "household-large"
  /\ scenarioType = "household-large"
  /\ hung = FALSE
  /\ save = SaveInit
  /\ preview = [camera |-> NoCamera, rendered |-> NoCamera]
  /\ report = "ok"
  /\ ops = 0

Range(f) == {f[x] : x \in DOMAIN f}

\* generateUuid(): an id that no sensor has had
FreshId ==
  CHOOSE id \in SensorIds :
    /\ id \notin {objects[i].config.id : i \in DOMAIN objects}
    /\ \A j \in SensorIds :
         j \notin {objects[i].config.id : i \in DOMAIN objects} => id <= j

\* the three.js objects and the manager's map, threaded through a handler
Managed(mgr, objs, w, threw, hng) ==
  [sensors |-> mgr, objects |-> objs, world |-> w, threw |-> threw, hung |-> hng]

\* SensorManager.createSensor
CreateSensor(m, config, meshes, hits) ==
  IF config.id \in DOMAIN m.sensors \/ config.type \notin {"camera", "lidar"}
    THEN [m EXCEPT !.threw = TRUE]
    ELSE LET i == Len(m.objects) + 1
             w == [m.world EXCEPT
                     !.groups = @ \cup {i},
                     !.clouds = IF config.type = "lidar" THEN @ \cup {i} ELSE @]
             children == meshes \cup
                           SensorChildren(w, Append(m.objects, SensorObject(config)))
             r == NewSensor(config, children, hits)
         IN  IF r.hung
               THEN Managed(m.sensors, Append(m.objects, r.s), w, FALSE, TRUE)
               ELSE Managed((config.id :> i) @@ m.sensors,
                            Append(m.objects, r.s), w, FALSE, FALSE)

\* for (const sensorConfig of configs) createSensor(sensorConfig)
RECURSIVE CreateAll(_, _, _, _)
CreateAll(m, configs, meshes, hits) ==
  IF configs = <<>> \/ m.threw \/ m.hung THEN m
  ELSE CreateAll(CreateSensor(m, Head(configs), meshes, hits),
                 Tail(configs), meshes, hits)

\* SensorManager.removeSensor; warned: the id was not in the map
RemoveFromManager(m, id) ==
  IF id \notin DOMAIN m.sensors THEN [m |-> m, warned |-> TRUE]
  ELSE LET i == m.sensors[id]
       IN  [m |-> [m EXCEPT
                     !.objects[i].disposed = TRUE,
                     !.world = LidarDispose(@, i),
                     !.sensors = [k \in (DOMAIN m.sensors) \ {id} |-> m.sensors[k]]],
            warned |-> FALSE]

\* for (const sensor of configs) removeSensor(sensor.id)
RECURSIVE RemoveAll(_, _)
RemoveAll(m, configs) ==
  IF configs = <<>> THEN m
  ELSE RemoveAll(RemoveFromManager(m, Head(configs).id).m, Tail(configs))

\* SensorManager.recomputeAllLidarPointClouds: recomputePointCloud() of
\* every LIDAR in the map
RecomputeAllLidarPointClouds(m, meshes, hits) ==
  LET live == {i \in Range(m.sensors) : m.objects[i].config.type = "lidar"}
      children == meshes \cup SensorChildren(m.world, m.objects)
      run(i) == GeneratePointCloud(m.objects[i], children, hits)
  IN  [m EXCEPT !.objects = [i \in DOMAIN m.objects |->
                               IF i \in live THEN run(i).s ELSE m.objects[i]],
                !.hung = \E i \in live : run(i).hung]

Current == Managed(sensors, objects, world, FALSE, FALSE)

\* the floor and scenario meshes now in the world
SceneMeshes == WorldMeshes(scenarioType, sceneType)

\* what Scene.getScenarioObjects returns now
Meshes == WorldChildren(world, objects, scenarioType, sceneType)

\* what the rays of a cycle hit: every mesh, or none
HitSets == {MeshNames, {}}

\* state.sensors.findIndex(s => s.id === id), 0 for -1
FindIndex(configs, id) ==
  IF \E k \in DOMAIN configs : configs[k].id = id
    THEN CHOOSE k \in DOMAIN configs :
           configs[k].id = id /\ \A j \in 1..(k - 1) : configs[j].id # id
    ELSE 0

\* state.sensors.filter(s => s.id !== id)
RECURSIVE Without(_, _)
Without(configs, id) ==
  IF configs = <<>> THEN <<>>
  ELSE IF Head(configs).id = id THEN Without(Tail(configs), id)
  ELSE <<Head(configs)>> \o Without(Tail(configs), id)

----------------------------------------------------------------------------
(* Observer of the wrapped function                                        *)

ObsInit ==
  [execs |-> 0,               \* executions of fn so far (saturating at 2)
   lastExecTime |-> 0,        \* when fn ran last, and the run before it
   prevExecTime |-> 0,
   lastExecArgs |-> NoArgs,
   lastExecKind |-> "none",   \* "leading" (synchronous) or "trailing" (timer)
   prevExecKind |-> "none",
   reqTime |-> 0,             \* the latest trigger: its time and arguments
   reqArgs |-> NoArgs,
   waiting |-> 0,             \* triggers since the last execution of fn
   served |-> 0]              \* triggers that were waiting when fn ran last

Sat2(n) == IF n >= 2 THEN 2 ELSE n

ObsExec(o, now, args, kind) ==
  [o EXCEPT !.execs = Sat2(@ + 1),
            !.prevExecTime = o.lastExecTime,
            !.lastExecTime = now,
            !.lastExecArgs = args,
            !.prevExecKind = o.lastExecKind,
            !.lastExecKind = kind,
            !.served = o.waiting,
            !.waiting = 0]

ObsCall(o, now, args) ==
  [o EXCEPT !.reqTime = now, !.reqArgs = args, !.waiting = @ + 1]

TimerDue == thr.timeoutId /\ clock >= thr.due

----------------------------------------------------------------------------
(* One throttled function, any interleaving of triggers and timer          *)

ThrottleSpecInit ==
  /\ clock = StartTime
  /\ thr = ThrottleInit
  /\ obs = ObsInit
  /\ scan = NoScan
  /\ AppInit

\* time passes
Tick ==
  /\ clock + TickStep <= MaxTime + Delay
  /\ clock' = clock + TickStep
  /\ UNCHANGED <<thr, obs, scan, appVars>>

\* a trigger event calls the throttled function
CallUpTo(a, cap) ==
  /\ clock <= MaxTime
  /\ obs.waiting < cap
  /\ LET r == Throttled(thr, clock, a)
         o == ObsCall(obs, clock, a)
     IN  /\ thr' = r.thr
         /\ obs' = IF r.run THEN ObsExec(o, clock, r.args, "leading") ELSE o
  /\ UNCHANGED <<clock, scan, appVars>>

Call(a) == CallUpTo(a, MaxWaiting)

\* the pending timer fires, at or after its deadline
TimerFire ==
  /\ TimerDue
  /\ LET r == TrailingCallback(thr, clock)
     IN  /\ thr' = r.thr
         /\ obs' = IF r.run THEN ObsExec(obs, clock, r.args, "trailing") ELSE obs
  /\ UNCHANGED <<clock, scan, appVars>>

ThrottleNext == Tick \/ (\E a \in Args : Call(a)) \/ TimerFire

ThrottleSpec == ThrottleSpecInit /\ [][ThrottleNext]_vars

\* the assumption of the trailing-edge guarantee: time passes and a pending
\* timer eventually fires
FairThrottleSpec == ThrottleSpec /\ WF_vars(Tick) /\ WF_vars(TimerFire)

----------------------------------------------------------------------------
(* One throttled function under a synthetic clock: advancing the clock     *)
(* runs a timer exactly at its deadline, before any later trigger          *)

Min(a, b) == IF a <= b THEN a ELSE b

AdvanceClock ==
  /\ ~TimerDue
  /\ clock + TickStep <= MaxTime + Delay
  /\ clock' = IF thr.timeoutId THEN Min(clock + TickStep, thr.due)
                               ELSE clock + TickStep
  /\ UNCHANGED <<thr, obs, scan, appVars>>

BurstCall(a) == ~TimerDue /\ CallUpTo(a, BurstSize)

SyntheticNext == AdvanceClock \/ (\E a \in Args : BurstCall(a)) \/ TimerFire

SyntheticClockSpec == ThrottleSpecInit /\ [][SyntheticNext]_vars

----------------------------------------------------------------------------
(* One scan cycle, over a grid of scan configurations                      *)

\* channel counts, horizontal fields of view and resolutions (1/100 degree)
ScanChannels == {1, 3, 16, 32, 64, 128}
ScanHFovs == {1, 3840, 7810, 9000, 36000}
ScanResolutions == {-100, 0, 1, 5, 10, 20, 35, 100, 36000}

RaySpecInit ==
  /\ clock = StartTime
  /\ thr = ThrottleInit
  /\ obs = ObsInit
  /\ scan \in [channels : ScanChannels, hFov : ScanHFovs,
               angularResH : ScanResolutions, rays : {0}, done : {FALSE}]
  /\ AppInit

\* the loops of generatePointCloud run
CastRays ==
  /\ ~scan.done
  /\ scan' = [scan EXCEPT !.rays = RaysCast(scan.channels, scan.hFov, scan.angularResH),
                          !.done = TRUE]
  /\ UNCHANGED <<throttleVars, appVars>>

RayNext == CastRays

RaySpec == RaySpecInit /\ [][RayNext]_vars

ValidScanConfig == scan.channels >= 1 /\ scan.hFov > 0 /\ scan.hFov <= 36000 /\ scan.angularResH > 0

\* C5: for a valid configuration the rays of one cycle never exceed
\* MAX_RAYS_PER_FRAME
C5_RayBudget ==
  (scan.done /\ ValidScanConfig) =>
     (scan.rays # Unbounded /\ scan.rays <= MAX_RAYS_PER_FRAME)

----------------------------------------------------------------------------
(* The application: App operations, the clock and the sensors' timers      *)

\* last instant of the application runs
AppMaxTime == 160

\* App operations in one run
MaxOps == 3

\* one more user operation is handled
Operation ==
  /\ ~hung
  /\ clock <= AppMaxTime
  /\ ops < MaxOps
  /\ ops' = ops + 1

\* sensor types the add buttons offer
AddTypes == {"camera", "lidar"}

Install(m) ==
  /\ sensors' = m.sensors
  /\ objects' = m.objects
  /\ world' = m.world
  /\ hung' = m.hung

\* App.addSensor(type)
AddSensor(type, hits) ==
  /\ Operation
  /\ Len(objects) < MaxObjects
  /\ LET id == FreshId
         config == IF type = "lidar" THEN DefaultLidar(id) ELSE DefaultCamera(id)
     IN  /\ state' = [state EXCEPT !.sensors = Append(@, config),
                                   !.selectedSensorId = id]
         /\ LET r == CreateSensor(Current, config, SceneMeshes, hits)
            IN  /\ Install(r)
                /\ save' = StateChanged(save, clock, ~r.threw /\ ~r.hung)
  /\ report' = "ok"
  /\ UNCHANGED <<clock, thr, obs, scan, sceneType, scenarioType, preview>>

\* App.removeSensor(id)
RemoveSensor(id) ==
  /\ Operation
  /\ state' = [state EXCEPT
                 !.sensors = Without(@, id),
                 !.selectedSensorId = IF @ = id THEN NoSensor ELSE @]
  /\ LET r == RemoveFromManager(Current, id)
     IN  /\ Install(r.m)
         /\ report' = IF r.warned THEN "warn" ELSE "ok"
  /\ save' = StateChanged(save, clock, TRUE)
  /\ UNCHANGED <<clock, thr, obs, scan, sceneType, scenarioType, preview>>

\* values the sensor panel passes to App.updateSensor: parseFloat of the
\* number field, any number that is not NaN
Changes ==
  {[pos |-> 0], [pos |-> FarAway], [enabled |-> FALSE], [enabled |-> TRUE],
   [angularResH |-> 0], [angularResH |-> -100], [showPointCloud |-> FALSE]}

\* App.updateSensor(id, changes)
UpdateSensor(id, changes, hits) ==
  /\ Operation
  /\ LET k == FindIndex(state.sensors, id)
     IN  IF k = 0
           THEN /\ report' = "warn"
                /\ UNCHANGED <<state, sensors, objects, world, hung, save>>
           ELSE LET newConfig == Merge(state.sensors[k], changes)
                IN  /\ DOMAIN changes \subseteq DOMAIN state.sensors[k]
                    /\ state' = [state EXCEPT !.sensors[k] = newConfig]
                    /\ IF id \notin DOMAIN sensors
                         THEN /\ report' = "warn"
                              /\ save' = StateChanged(save, clock, TRUE)
                              /\ UNCHANGED <<sensors, objects, world, hung>>
                         ELSE LET i == sensors[id]
                                  r == UpdateConfig(objects[i], newConfig,
                                                    clock, Meshes, hits)
                              IN  /\ objects' = [objects EXCEPT ![i] = r.s]
                                  /\ hung' = r.hung
                                  /\ report' = "ok"
                                  /\ save' = StateChanged(save, clock, ~r.hung)
                                  /\ UNCHANGED <<sensors, world>>
  /\ UNCHANGED <<clock, thr, obs, scan, sceneType, scenarioType, preview>>

\* the camera that App.selectSensor(id) hands to PreviewPanel.setCamera:
\* the manager's object of a camera entry of the state, null for any other
\* id; a camera entry without an object leaves the panel as it is
SelectedCamera(st, mgr, id, current) ==
  LET k == FindIndex(st.sensors, id)
  IN  IF id # NoSensor /\ k # 0 /\ st.sensors[k].type = "camera"
        THEN IF id \in DOMAIN mgr THEN mgr[id] ELSE current
        ELSE NoCamera

\* App.selectSensor(id)
SelectSensor(id) ==
  /\ Operation
  /\ state' = [state EXCEPT !.selectedSensorId = id]
  /\ preview' = [preview EXCEPT !.camera = SelectedCamera(state, sensors, id, @)]
  /\ report' = "ok"
  /\ UNCHANGED <<clock, thr, obs, scan, sensors, objects, world, sceneType,
                 scenarioType, hung, save>>

\* App.cloneSensor(id)
CloneSensor(id, hits) ==
  /\ Operation
  /\ LET k == FindIndex(state.sensors, id)
     IN  IF k = 0
           THEN /\ report' = "warn"
                /\ UNCHANGED <<state, sensors, objects, world, hung, save>>
           ELSE /\ Len(objects) < MaxObjects
                /\ LET newId == FreshId
                       clonedSensor == [state.sensors[k] EXCEPT
                                          !.id = newId, !.pos = @ + 5]
                   IN  /\ state' = [state EXCEPT
                                      !.sensors = Append(@, clonedSensor),
                                      !.selectedSensorId = newId]
                       /\ LET r == CreateSensor(Current, clonedSensor,
                                                 SceneMeshes, hits)
                          IN  /\ Install(r)
                              /\ save' = StateChanged(save, clock,
                                                      ~r.threw /\ ~r.hung)
                /\ report' = "ok"
  /\ UNCHANGED <<clock, thr, obs, scan, sceneType, scenarioType, preview>>

\* App.changeScenario(scenario): Scene.setScenarioType,
\* ScenarioManager.loadScenario, then recomputePointCloud of every LIDAR
ChangeScenario(scenario, hits) ==
  /\ Operation
  /\ state' = [state EXCEPT !.scenario = scenario]
  /\ sceneType' = scenario
  /\ scenarioType' = scenario
  /\ LET r == RecomputeAllLidarPointClouds(Current,
                                           WorldMeshes(scenario, scenario), hits)
     IN  /\ Install(r)
         /\ save' = StateChanged(save, clock, ~r.hung)
  /\ report' = "ok"
  /\ UNCHANGED <<clock, thr, obs, scan, preview>>

\* CoordinateSystem
CoordinateSystems == {"ros", "threejs"}

\* App.updateSettings({coordinateSystem})
UpdateSettings(coordinateSystem) ==
  /\ Operation
  /\ state' = [state EXCEPT !.settings.coordinateSystem = coordinateSystem]
  /\ save' = StateChanged(save, clock, TRUE)
  /\ report' = "ok"
  /\ UNCHANGED <<clock, thr, obs, scan, sensors, objects, world, sceneType,
                 scenarioType, hung, preview>>

\* SensorManager.setSensorEnabled(id, enabled)
SetSensorEnabled(id, enabled) ==
  /\ Operation
  /\ IF id \notin DOMAIN sensors
       THEN /\ report' = "warn"
            /\ UNCHANGED <<objects, state>>
       ELSE LET k == FindIndex(state.sensors, id)
            IN  /\ objects' = [objects EXCEPT ![sensors[id]] = SetEnabled(@, enabled)]
                /\ state' = IF objects[sensors[id]].shared /\ k # 0
                              THEN [state EXCEPT !.sensors[k].enabled = enabled]
                              ELSE state
                /\ report' = "ok"
  /\ UNCHANGED <<clock, thr, obs, scan, sensors, world, sceneType,
                 scenarioType, hung, save, preview>>

\* a sensor entry of an imported file whose type the manager does not build
DepthSensor(id) == [DefaultCamera(id) EXCEPT !.type = "depth"]

Settings == [coordinateSystem |-> "ros"]

\* a LIDAR entry written without the channels field
LidarWithoutChannels(id) ==
  [f \in (DOMAIN DefaultLidar(id)) \ {"channels"} |-> DefaultLidar(id)[f]]

\* JSON.parse(json): files a user can pick; parsed = FALSE is a syntax error
ImportFiles ==
  {[parsed |-> FALSE],
   [parsed |-> TRUE, scenario |-> "city", settings |-> Settings],
   [parsed |-> TRUE, sensors |-> <<>>, selectedSensorId |-> NoSensor,
    scenario |-> "city"],
   [parsed |-> TRUE, sensors |-> <<>>, selectedSensorId |-> 1,
    scenario |-> "household-large", settings |-> Settings],
   [parsed |-> TRUE, sensors |-> <<DefaultLidar(1)>>, selectedSensorId |-> 1,
    scenario |-> "city", settings |-> Settings],
   [parsed |-> TRUE, sensors |-> <<DefaultLidar(1), DefaultCamera(1)>>,
    selectedSensorId |-> 1, scenario |-> "household-large",
    settings |-> Settings],
   [parsed |-> TRUE, sensors |-> <<LidarWithoutChannels(2)>>,
    selectedSensorId |-> 2, scenario |-> "household-large",
    settings |-> Settings],
   [parsed |-> TRUE, sensors |-> <<DepthSensor(2)>>, selectedSensorId |-> 2,
    scenario |-> "household-large", settings |-> Settings],
   [parsed |-> TRUE,
    sensors |-> <<[DefaultLidar(1) EXCEPT !.angularResH = 0, !.channels = 0]>>,
    selectedSensorId |-> NoSensor, scenario |-> "household-large",
    settings |-> Settings]}

\* the AppState of a parsed file
Imported(file) == [f \in (DOMAIN file) \ {"parsed"} |-> file[f]]

\* App.importConfig(json)
ImportConfig(file, hits) ==
  /\ Operation
  /\ IF ~file.parsed \/ "sensors" \notin DOMAIN file
       THEN \* JSON.parse or the structure check throws
            /\ report' = "alert"
            /\ UNCHANGED <<state, sensors, objects, world, scenarioType, hung,
                           save, preview>>
       ELSE LET imported == Imported(file)
                cleared == RemoveAll(Current, state.sensors)
            IN  /\ Len(objects) + Len(file.sensors) <= MaxObjects
                /\ IF "settings" \notin DOMAIN file
                     THEN \* this.state.settings.coordinateSystem throws
                          /\ state' = imported
                          /\ Install(cleared)
                          /\ report' = "alert"
                          /\ UNCHANGED <<scenarioType, save, preview>>
                     ELSE LET meshes == WorldMeshes(file.scenario, sceneType)
                              r == CreateAll(cleared, file.sensors, meshes, hits)
                          IN  /\ Install(r)
                              /\ scenarioType' = file.scenario
                              /\ state' =
                                   IF r.threw \/ r.hung \/ file.sensors = <<>>
                                     THEN imported
                                     ELSE [imported EXCEPT
                                             !.selectedSensorId = file.sensors[1].id]
                              /\ report' = IF r.threw THEN "alert" ELSE "ok"
                              /\ save' = IF r.threw \/ r.hung THEN save
                                         ELSE SaveState(save, state')
                              /\ preview' =
                                   IF r.threw \/ r.hung \/ file.sensors = <<>>
                                     THEN preview
                                     ELSE [preview EXCEPT !.camera =
                                             SelectedCamera(imported, r.sensors,
                                                            file.sensors[1].id, @)]
  /\ UNCHANGED <<clock, thr, obs, scan, sceneType>>

\* time passes, in ticks or up to the deadline of the pending save; timers
\* may run late
AppTick ==
  /\ ~hung
  /\ \/ /\ clock + TickStep <= AppMaxTime
        /\ clock' = clock + TickStep
     \/ /\ save.timeoutId
        /\ save.due > clock
        /\ clock' = save.due
  /\ UNCHANGED <<thr, obs, scan, appVars>>

\* the trailing timer of sensor object i fires, disposed or not
AppTimerFire(i, hits) ==
  /\ ~hung
  /\ i \in DOMAIN objects
  /\ objects[i].thr.timeoutId
  /\ clock >= objects[i].thr.due
  /\ LET r == TrailingRun(objects[i], clock, Meshes, hits)
     IN  /\ objects' = [objects EXCEPT ![i] = r.s]
         /\ hung' = r.hung
  /\ UNCHANGED <<clock, thr, obs, scan, state, sensors, world, sceneType,
                 scenarioType, report, ops, save, preview>>

\* the timer of saveStateDebounced fires: saveState(this.state)
SaveTimerFire ==
  /\ ~hung
  /\ save.timeoutId
  /\ clock >= save.due
  /\ save' = [SaveState(save, state) EXCEPT !.timeoutId = FALSE]
  /\ UNCHANGED <<clock, thr, obs, scan, state, sensors, objects, world,
                 sceneType, scenarioType, hung, report, ops, preview>>

\* App.getSelectedSensor(), as an index of state.sensors (0 for null)
GetSelectedSensor ==
  IF state.selectedSensorId = NoSensor THEN 0
  ELSE FindIndex(state.sensors, state.selectedSensorId)

\* App.onRenderFrame calls previewPanel.update(): the selected sensor is a
\* camera that the manager holds
UpdatesPreview ==
  /\ GetSelectedSensor # 0
  /\ state.sensors[GetSelectedSensor].type = "camera"
  /\ state.selectedSensorId \in DOMAIN sensors

\* PreviewPanel.update gets past its guard and renders currentCamera
RendersPreview ==
  /\ UpdatesPreview
  /\ preview.camera # NoCamera
  /\ objects[preview.camera].config.enabled

\* the render-loop callback: App.onRenderFrame
RenderFrame ==
  /\ ~hung
  /\ RendersPreview
  /\ preview' = [preview EXCEPT !.rendered = preview.camera]
  /\ UNCHANGED <<clock, thr, obs, scan, state, sensors, objects, world,
                 sceneType, scenarioType, hung, report, ops, save>>

Init ==
  /\ clock = StartTime
  /\ thr = ThrottleInit
  /\ obs = ObsInit
  /\ scan = NoScan
  /\ AppInit

Next ==
  \/ \E type \in AddTypes, hits \in HitSets : AddSensor(type, hits)
  \/ \E id \in SensorIds : RemoveSensor(id)
  \/ \E id \in SensorIds, changes \in Changes, hits \in HitSets :
       UpdateSensor(id, changes, hits)
  \/ \E id \in SensorIds \cup {NoSensor} : SelectSensor(id)
  \/ \E id \in SensorIds, hits \in HitSets : CloneSensor(id, hits)
  \/ \E scenario \in ScenarioTypes, hits \in HitSets :
       ChangeScenario(scenario, hits)
  \/ \E coordinateSystem \in CoordinateSystems : UpdateSettings(coordinateSystem)
  \/ \E id \in SensorIds, enabled \in BOOLEAN : SetSensorEnabled(id, enabled)
  \/ \E file \in ImportFiles, hits \in HitSets : ImportConfig(file, hits)
  \/ AppTick
  \/ \E i \in 1..MaxObjects, hits \in HitSets : AppTimerFire(i, hits)
  \/ SaveTimerFire
  \/ RenderFrame

Spec == Init /\ [][Next]_vars

\* time passes and a pending save timer eventually fires
FairSpec == Spec /\ WF_vars(AppTick) /\ WF_vars(SaveTimerFire)

----------------------------------------------------------------------------
(* The channel loop of generatePointCloud: vertical angles, as fractions   *)
(* num / den of 1/100 degree                                               *)

\* channel counts and vertical fields of view (1/100 degree)
VScanChannels == {1, 2, 3, 4, 16, 32}
ScanVFovs == {0, 50, 3000, 3840, 4000, 4500}

\* variant of VAngle: the step is vFov / channels, the last channel falls
\* short of +vFov/2
VAngleOpenEnd(channels, vFov, ch) ==
  IF channels = 1 THEN [num |-> 0, den |-> 1]
  ELSE [num |-> 2 * ch * vFov - vFov * channels, den |-> 2 * channels]

\* vAngle of channel ch: 0 for one channel, else
\* -vFov/2 + ch * (vFov / (channels - 1))
VAngle(channels, vFov, ch) ==
  IF channels = 1 THEN [num |-> 0, den |-> 1]
  ELSE [num |-> 2 * ch * vFov - vFov * (channels - 1), den |-> 2 * (channels - 1)]

ChannelSpecInit ==
  /\ clock = StartTime
  /\ thr = ThrottleInit
  /\ obs = ObsInit
  /\ scan \in [channels : VScanChannels, vFov : ScanVFovs, ch : {0},
               vAngles : {<<>>}]
  /\ AppInit

\* one iteration of for (let ch = 0; ch < channels; ch++)
ChannelStep ==
  /\ scan.ch < scan.channels
  /\ scan' = [scan EXCEPT
                !.vAngles = Append(@, VAngle(scan.channels, scan.vFov, scan.ch)),
                !.ch = @ + 1]
  /\ UNCHANGED <<throttleVars, appVars>>

ChannelNext == ChannelStep

ChannelSpec == ChannelSpecInit /\ [][ChannelNext]_vars

FracEq(a, b) == a.num * b.den = b.num * a.den

FracLess(a, b) == a.num * b.den < b.num * a.den

FracAdd(a, b) == [num |-> a.num * b.den + b.num * a.den, den |-> a.den * b.den]

FracTwice(a) == [num |-> 2 * a.num, den |-> a.den]

----------------------------------------------------------------------------
(* The scan-volume meshes: index lists of createFullRotationGeometry and   *)
(* createSectorGeometry                                                    *)

H_SEGMENTS == 64
V_SEGMENTS == 8

\* horizontal fields of view (1/100 degree) whose volume is built
VolumeHFovs == {1, 9000, 18000, 35999, 36000}

\* hSegments of the geometry that updateVisualization picks for hFov
HSegments(hFov) ==
  IF hFov >= 36000 THEN H_SEGMENTS
  ELSE LET n == (H_SEGMENTS * hFov) \div 36000 IN IF n > 8 THEN n ELSE 8

verticesPerSlice == (V_SEGMENTS + 1) * 2

\* the four triangles of cell (h, v): near / inner and far / outer surface
CellFaces(h, v) ==
  LET current == h * verticesPerSlice + v * 2
      next == (h + 1) * verticesPerSlice + v * 2
  IN  << <<current, next + 2, next>>, <<current, current + 2, next + 2>>,
         <<current + 1, next + 1, next + 3>>,
         <<current + 1, next + 3, current + 3>> >>

\* bottom and top cap of slice h
CapFaces(h) ==
  LET b0 == h * verticesPerSlice
      b1 == (h + 1) * verticesPerSlice
      t0 == h * verticesPerSlice + V_SEGMENTS * 2
      t1 == (h + 1) * verticesPerSlice + V_SEGMENTS * 2
  IN  << <<b0, b1, b1 + 1>>, <<b0, b1 + 1, b0 + 1>>,
         <<t0, t1 + 1, t1>>, <<t0, t0 + 1, t1 + 1>> >>

RECURSIVE CellsFrom(_, _)
CellsFrom(h, v) ==
  IF v >= V_SEGMENTS THEN <<>> ELSE CellFaces(h, v) \o CellsFrom(h, v + 1)

\* one iteration of for (let h = 0; h < hSegments; h++)
SliceFaces(h) == CellsFrom(h, 0) \o CapFaces(h)

\* the two triangles of the side cap at slice h between v and v + 1;
\* left winds (l0, l2, l1), (l0, l3, l2), right the other way round
SideFaces(h, v, left) ==
  LET l0 == h * verticesPerSlice + v * 2
      l1 == l0 + 1
      l2 == h * verticesPerSlice + (v + 1) * 2 + 1
      l3 == h * verticesPerSlice + (v + 1) * 2
  IN  IF left THEN << <<l0, l2, l1>>, <<l0, l3, l2>> >>
              ELSE << <<l0, l1, l2>>, <<l0, l2, l3>> >>

RECURSIVE SideFrom(_, _, _)
SideFrom(h, v, left) ==
  IF v >= V_SEGMENTS THEN <<>>
  ELSE SideFaces(h, v, left) \o SideFrom(h, v + 1, left)

VolumeSpecInit ==
  /\ clock = StartTime
  /\ thr = ThrottleInit
  /\ obs = ObsInit
  /\ scan \in [hFov : VolumeHFovs, h : {0}, indices : {<<>>}, built : {FALSE}]
  /\ AppInit

\* the faces of one more slice are pushed
PushSlice ==
  /\ ~scan.built
  /\ scan.h < HSegments(scan.hFov)
  /\ scan' = [scan EXCEPT !.indices = @ \o SliceFaces(scan.h), !.h = @ + 1]
  /\ UNCHANGED <<throttleVars, appVars>>

\* the slice loop is over: createSectorGeometry pushes the left and right
\* side caps, createFullRotationGeometry pushes nothing more
FinishGeometry ==
  /\ ~scan.built
  /\ scan.h = HSegments(scan.hFov)
  /\ scan' = [scan EXCEPT
                !.indices = IF scan.hFov >= 36000 THEN @
                            ELSE @ \o SideFrom(0, 0, TRUE)
                                   \o SideFrom(HSegments(scan.hFov), 0, FALSE),
                !.built = TRUE]
  /\ UNCHANGED <<throttleVars, appVars>>

VolumeNext == PushSlice \/ FinishGeometry

VolumeSpec == VolumeSpecInit /\ [][VolumeNext]_vars

TriangleEdges(t) == {{t[1], t[2]}, {t[2], t[3]}, {t[1], t[3]}}

\* number of triangles of the index list that have edge e
EdgeUse(indices, e) ==
  Cardinality({k \in DOMAIN indices : e \subseteq {indices[k][1], indices[k][2],
                                                 indices[k][3]}})

Closed(indices) ==
  \A k \in DOMAIN indices : \A e \in TriangleEdges(indices[k]) :
    EdgeUse(indices, e) = 2

\* C18: in the index list of a scan volume every triangle edge is shared by
\* exactly two triangles, for a sector and for a full rotation
C18_VolumeClosed == scan.built => Closed(scan.indices)

----------------------------------------------------------------------------
(* debounce(fn, delay): src/src/utils/storage.ts                           *)

\* timeoutId = null
DebounceInit == [timeoutId |-> FALSE, due |-> 0, args |-> NoArgs]

\* variant of Debounced: a pending timer is kept, only the arguments change
DebouncedKeepsTimer(d, now, args) ==
  IF d.timeoutId THEN [d EXCEPT !.args = args]
  ELSE [timeoutId |-> TRUE, due |-> now + Delay, args |-> args]

\* debounced(...args): clearTimeout of a pending timer, then a new timer
\* that holds these arguments
Debounced(d, now, args) == [timeoutId |-> TRUE, due |-> now + Delay, args |-> args]

\* the timer callback: timeoutId = null; fn.apply(this, args)
DebounceCallback(d) ==
  [deb |-> [d EXCEPT !.timeoutId = FALSE], args |-> d.args]

DebounceSpecInit ==
  /\ clock = StartTime
  /\ thr = DebounceInit
  /\ obs = ObsInit
  /\ scan = NoScan
  /\ AppInit

\* a call of the debounced function
DebounceCall(a) ==
  /\ clock <= MaxTime
  /\ obs.waiting < MaxWaiting
  /\ thr' = Debounced(thr, clock, a)
  /\ obs' = ObsCall(obs, clock, a)
  /\ UNCHANGED <<clock, scan, appVars>>

\* the pending timer fires, at or after its deadline
DebounceFire ==
  /\ TimerDue
  /\ LET r == DebounceCallback(thr)
     IN  /\ thr' = r.deb
         /\ obs' = ObsExec(obs, clock, r.args, "trailing")
  /\ UNCHANGED <<clock, scan, appVars>>

DebounceNext == Tick \/ (\E a \in Args : DebounceCall(a)) \/ DebounceFire

DebounceSpec == DebounceSpecInit /\ [][DebounceNext]_vars

\* time passes and a pending timer eventually fires
FairDebounceSpec == DebounceSpec /\ WF_vars(Tick) /\ WF_vars(DebounceFire)

\* fn has run since the latest call: it ran delay or more after that call,
\* with its arguments, and every run of fn served at least one call
DebounceQuiet ==
  /\ obs.execs >= 1 => obs.served >= 1
  /\ obs.execs >= 1 /\ obs.waiting = 0 =>
       /\ obs.lastExecTime >= obs.reqTime + Delay
       /\ obs.lastExecArgs = obs.reqArgs

\* C19: a debounced function runs only once delay has passed without a new
\* call; a burst of calls leads to one run, with the last call's arguments
C19_Debounce == []DebounceQuiet /\ ((obs.waiting > 0) ~> (obs.waiting = 0))

\* one run of fn has served a burst of calls
C19_Witness ==
  /\ obs.execs >= 1
  /\ obs.served >= 2
  /\ obs.waiting = 0
  /\ obs.lastExecArgs = obs.reqArgs

----------------------------------------------------------------------------
(* The target filter of generatePointCloud over large worlds: the meshes   *)
(* of the world in traversal order, the distance filter, the sort and the  *)
(* cap                                                                     *)

\* LidarSensor.MAX_RAYCAST_TARGETS
MAX_RAYCAST_TARGETS == 500

\* meshes beyond the cap in the largest world
ExtraMeshes == 20

\* mesh positions repeat after this many places, 1 m apart
Spread == 12

\* number of meshes under the world root
MeshCounts ==
  {0, 1, 3, MAX_RAYCAST_TARGETS - 1, MAX_RAYCAST_TARGETS,
   MAX_RAYCAST_TARGETS + 1, MAX_RAYCAST_TARGETS + ExtraMeshes}

\* how the traversal order of the meshes relates to their positions
Strides == {1, 5}

SensorPositions == {0, 60}

\* maxRange of the LIDAR, in 1/10 m: short, just short of the farthest
\* meshes, and beyond every mesh
MaxRanges == {10, ((Spread - 1) * 20) \div 3 - 3, 1000}

\* the meshes that the traversal of the world's children visits, in order
WorldOf(count, stride) ==
  [k \in 1..count |->
     [id |-> k, pos |-> ((k * stride) % Spread) * 10, radius |-> ((k \div Spread) % 3) * 5]]

\* the traversal: a mesh is pushed with its distance when
\* distance - boundingRadius <= maxRange * 1.5
MeshesWithDistance(objs, pos, maxRange) ==
  LET withDistance == [k \in DOMAIN objs |->
                         [mesh |-> objs[k], distance |-> Dist(pos, objs[k].pos)]]
      InRange(e) == 2 * (e.distance - e.mesh.radius) <= 3 * maxRange
  IN  SelectSeq(withDistance, InRange)

\* variant of SortByDistance: the entries stay in traversal order
KeepTraversalOrder(seq) == seq

\* seq.sort((a, b) => a.distance - b.distance): ascending, entries of equal
\* distance in their earlier order
SortByDistance(seq) ==
  LET RECURSIVE From(_)
      From(ds) ==
        IF ds = {} THEN <<>>
        ELSE LET d == CHOOSE x \in ds : \A y \in ds : x <= y
                 At(e) == e.distance = d
             IN  SelectSeq(seq, At) \o From(ds \ {d})
  IN  From({seq[i].distance : i \in DOMAIN seq})

\* seq.slice(0, n)
Slice(seq, n) == SubSeq(seq, 1, Min(n, Len(seq)))

TargetSpecInit ==
  /\ clock = StartTime
  /\ thr = ThrottleInit
  /\ obs = ObsInit
  /\ scan \in [count : MeshCounts, stride : Strides, pos : SensorPositions,
               maxRange : MaxRanges, stage : {"start"}, kept : {<<>>},
               targets : {<<>>}]
  /\ AppInit

\* the loop over getScenarioObjects; an empty result ends the cycle
CollectMeshes ==
  /\ scan.stage = "start"
  /\ LET kept == MeshesWithDistance(WorldOf(scan.count, scan.stride),
                                    scan.pos, scan.maxRange)
     IN  scan' = [scan EXCEPT !.kept = kept,
                              !.stage = IF kept = <<>> THEN "returned"
                                        ELSE "filtered"]
  /\ UNCHANGED <<throttleVars, appVars>>

\* sort, slice(0, MAX_RAYCAST_TARGETS) and map(m => m.mesh)
SortAndSlice ==
  /\ scan.stage = "filtered"
  /\ LET nearest == Slice(SortByDistance(scan.kept), MAX_RAYCAST_TARGETS)
     IN  scan' = [scan EXCEPT !.targets = [i \in DOMAIN nearest |-> nearest[i].mesh],
                              !.stage = "done"]
  /\ UNCHANGED <<throttleVars, appVars>>

TargetNext == CollectMeshes \/ SortAndSlice

TargetSpec == TargetSpecInit /\ [][TargetNext]_vars

----------------------------------------------------------------------------
(* The ray loop of generatePointCloud: positions and colors are the local  *)
(* arrays of floats, by their length; buffer is the geometry's 'position'  *)
(* and 'color' attributes, by the length of their arrays                   *)

\* intersections that raycaster.intersectObjects may report for one ray
MaxHits == 2

\* channel counts and horizontal fields of view (1/100 degree) of small scans
HitChannels == {1, 2, 3}
HitHFovs == {100, 300}

\* attributes left by an earlier cycle: empty, or two samples
EarlierBuffers == {[position |-> 0, color |-> 0], [position |-> 6, color |-> 6]}

\* variant of PushSample: every intersection of the ray becomes a sample
PushEveryHit(a, intersects) ==
  [a EXCEPT !.positions = @ + 3 * intersects, !.colors = @ + 3 * intersects]

\* if (intersects.length > 0): positions.push(x, y, z) of intersects[0] and
\* colors.push(r, g, b)
PushSample(a, intersects) ==
  IF intersects > 0
    THEN [a EXCEPT !.positions = @ + 3, !.colors = @ + 3]
    ELSE a

HitSpecInit ==
  /\ clock = StartTime
  /\ thr = ThrottleInit
  /\ obs = ObsInit
  /\ scan \in [channels : HitChannels, hFov : HitHFovs, angularResH : {100},
               enabled : BOOLEAN, targets : BOOLEAN, stage : {"start"},
               rays : {0}, ray : {0}, positions : {0}, colors : {0},
               buffer : EarlierBuffers]
  /\ AppInit

\* generatePointCloud up to the loops: the disabled branch sets two empty
\* attributes, a cycle without targets returns
BeginCycle ==
  /\ scan.stage = "start"
  /\ scan' = IF ~scan.enabled
               THEN [scan EXCEPT !.buffer = [position |-> 0, color |-> 0],
                                 !.stage = "cleared"]
             ELSE IF ~scan.targets THEN [scan EXCEPT !.stage = "returned"]
             ELSE [scan EXCEPT !.stage = "casting",
                               !.rays = RaysCast(scan.channels, scan.hFov,
                                                 scan.angularResH)]
  /\ UNCHANGED <<throttleVars, appVars>>

\* one pass of the inner loop: intersectObjects, then the push of its
\* nearest hit
CastRay(intersects) ==
  /\ scan.stage = "casting"
  /\ scan.ray < scan.rays
  /\ scan' = [PushSample(scan, intersects) EXCEPT !.ray = @ + 1]
  /\ UNCHANGED <<throttleVars, appVars>>

\* after the loops: setAttribute('position', ...) and setAttribute('color', ...)
UpdateBuffers ==
  /\ scan.stage = "casting"
  /\ scan.ray = scan.rays
  /\ scan' = [scan EXCEPT !.buffer = [position |-> scan.positions,
                                      color |-> scan.colors],
                          !.stage = "cast"]
  /\ UNCHANGED <<throttleVars, appVars>>

HitNext == BeginCycle \/ (\E intersects \in 0..MaxHits : CastRay(intersects)) \/ UpdateBuffers

HitSpec == HitSpecInit /\ [][HitNext]_vars

----------------------------------------------------------------------------
\* C1: two executions of fn are never less than `delay` apart
C1_MinGap == obs.execs >= 2 => obs.lastExecTime - obs.prevExecTime >= Delay

\* the latest trigger has been applied: fn ran at or after it, with its arguments
Delivered ==
  /\ obs.waiting = 0
  /\ obs.lastExecArgs = obs.reqArgs
  /\ obs.lastExecTime >= obs.reqTime

\* C2: after any burst of triggers fn is eventually executed at or after the
\* time of the last trigger and with its arguments, provided time passes and
\* the pending timer fires
C2_TrailingEdge == (obs.waiting > 0) ~> Delivered

\* a trailing run has applied the last of several waiting triggers
C2_Witness ==
  /\ obs.lastExecKind = "trailing"
  /\ obs.served >= 2
  /\ obs.lastExecTime > obs.reqTime
  /\ Delivered

\* a burst: the triggers that arrived in the interval closed by the
\* trailing run, together with the trigger that opened the interval when
\* it was opened by a trigger (a leading run)
BurstLed == obs.prevExecKind = "leading"
BurstEvents == obs.served + (IF BurstLed THEN 1 ELSE 0)
BurstRuns == 1 + (IF BurstLed THEN 1 ELSE 0)

\* C9 as stated: a burst of BurstSize triggers within one interval causes
\* exactly one run of fn, at the end of the interval, with the last data
C9_ExactlyOneRun ==
  (obs.lastExecKind = "trailing" /\ obs.waiting = 0 /\ BurstEvents = BurstSize) =>
     /\ BurstRuns = 1
     /\ obs.lastExecTime = obs.prevExecTime + Delay
     /\ obs.lastExecArgs = obs.reqArgs

\* C9 amended: the triggers that arrive inside an interval have exactly one
\* deferred run pending, due at the end of the interval; it runs there with
\* the data of the last trigger (the trigger that opened the interval ran
\* at once, on its own)
C9_OneDeferredRun ==
  /\ obs.waiting > 0 => thr.timeoutId /\ thr.due = obs.lastExecTime + Delay
  /\ (obs.lastExecKind = "trailing" /\ obs.waiting = 0) =>
        /\ obs.served > 0
        /\ obs.lastExecTime = obs.prevExecTime + Delay
        /\ obs.lastExecArgs = obs.reqArgs

\* BurstSize triggers inside one interval: the first ran at once, the other
\* ones were applied by one trailing run
C9_Witness ==
  /\ obs.lastExecKind = "trailing"
  /\ obs.waiting = 0
  /\ BurstLed
  /\ BurstEvents = BurstSize
  /\ obs.lastExecTime = obs.prevExecTime + Delay

----------------------------------------------------------------------------
\* C3: once a LIDAR sensor is disposed its point cloud is never recomputed
\* and its buffers are never written, also when a throttled run was pending
C3_NoScanAfterDispose ==
  \A i \in DOMAIN objects :
    objects[i].disposed => ~objects[i].staleRun /\ ~objects[i].staleWrite

\* C4: a scan cycle of an enabled LIDAR that finds no mesh within range ends
\* with empty position and color buffers
C4_NoTargetsEmptyCloud ==
  \A i \in DOMAIN objects :
    objects[i].cycle = "no targets" =>
      objects[i].positions = {} /\ objects[i].colors = {}

\* C6: every LIDAR configuration stored in App state or used by a sensor is
\* valid (angularResH > 0, channels >= 1, 0 < minRange < maxRange,
\* hFov <= 360), whatever values updates, creation or import supplied
C6_StoredConfigsValid ==
  /\ \A k \in DOMAIN state.sensors :
       state.sensors[k].type = "lidar" => ValidLidarConfig(state.sensors[k])
  /\ \A i \in Range(sensors) :
       objects[i].config.type = "lidar" => ValidLidarConfig(objects[i].config)

\* C7: generatePointCloud terminates for every configuration that reaches a
\* sensor through App.updateSensor: the main thread never hangs in its loop
C7_ScanTerminates == ~hung

ImportFailed == ops' = ops + 1 /\ report' = "alert"

\* C8: an import that fails leaves the App state, the live sensors of
\* SensorManager and the loaded scenario exactly as they were
C8_ImportAllOrNothing ==
  [][ImportFailed =>
       state' = state /\ sensors' = sensors /\ scenarioType' = scenarioType]_vars

\* samples of sensor object i that lie under the world root
WorldSamples(i) == IF i \in world.clouds THEN objects[i].positions ELSE {}

\* C10: a disposed LIDAR has no point-cloud object and no samples in the
\* world, at disposal and ever after, also after its pending timer has fired
C10_DisposedLeavesWorld ==
  \A i \in DOMAIN objects :
    objects[i].disposed => i \notin world.clouds /\ WorldSamples(i) = {}

\* a sensor was disposed with a timer pending, the timer has fired since and
\* has written samples into the buffers of the disposed sensor
C10_Witness ==
  \E i \in DOMAIN objects :
    /\ objects[i].disposed
    /\ objects[i].staleWrite
    /\ objects[i].positions # {}
    /\ ~objects[i].thr.timeoutId
    /\ i \notin world.clouds

\* C11: a scan cycle of a disabled LIDAR, or of one whose showPointCloud is
\* off, casts no ray and leaves empty position and color buffers
C11_DisabledShortCircuit ==
  \A i \in DOMAIN objects :
    objects[i].cycle = "disabled" =>
      /\ objects[i].rays = 0
      /\ objects[i].positions = {} /\ objects[i].colors = {}

\* a disabled sensor with meshes in range has run a scan cycle
C11_Witness ==
  \E i \in DOMAIN objects :
    /\ objects[i].cycle = "disabled"
    /\ ~objects[i].config.enabled
    /\ RaycastTargets(Meshes, objects[i].groupPos, objects[i].config.maxRange) # {}

\* an update, clone or remove request met an id it did not find
UnknownIdReported == ops' = ops + 1 /\ report' = "warn"

\* C12: an update or remove request for a sensor id that does not exist only
\* warns: the sensors, their configurations and the selection stay as they are
C12_UnknownIdNoOp ==
  [][UnknownIdReported =>
       /\ sensors' = sensors
       /\ objects' = objects
       /\ state'.sensors = state.sensors
       /\ state'.selectedSensorId = state.selectedSensorId]_vars

\* App.changeScenario has switched to another scenario
ScenarioChanged ==
  /\ ops' = ops + 1
  /\ sceneType' # sceneType
  /\ state'.scenario = sceneType'

\* C13: when App.changeScenario completes, the buffers of every enabled
\* LIDAR hold only samples of surfaces that are in the world now
C13_RecomputedOnScenarioChange ==
  [][ScenarioChanged /\ ~hung' =>
       \A i \in Range(sensors') :
         LET s == objects'[i]
         IN  s.config.type = "lidar" /\ s.config.enabled /\ s.config.showPointCloud
               => s.positions \subseteq
                    {m.name : m \in WorldMeshes(scenarioType', sceneType')}]_vars

\* the configuration of sensor object i changed in its position only
PoseOnlyChange(i) ==
  /\ i \in DOMAIN objects /\ i \in DOMAIN objects'
  /\ objects[i].config.type = "lidar"
  /\ objects'[i].config.pos # objects[i].config.pos
  /\ [objects'[i].config EXCEPT !.pos = objects[i].config.pos] = objects[i].config

\* C14: a pose change moves the group of a LIDAR and leaves its scan-volume
\* and slice geometry objects as they are
C14_PoseKeepsVolumeGeometry ==
  [][\A i \in 1..MaxObjects :
       PoseOnlyChange(i) => objects'[i].volume = objects[i].volume]_vars

\* C16: the raycast targets of a scan cycle never include a mesh of a sensor
\* group or a LIDAR point cloud, of the scanning sensor or of another one
C16_TargetsExcludeSensors ==
  \A i \in DOMAIN objects : objects[i].targets \cap SensorNames = {}

\* a LIDAR has cast rays at scene meshes while the group of another sensor
\* stood within its range
C16_Witness ==
  \E i \in Range(sensors), j \in world.groups :
    /\ i # j
    /\ objects[i].cycle = "cast"
    /\ objects[i].targets # {}
    /\ i \in world.clouds
    /\ objects[i].volume > 0
    /\ Dist(objects[i].groupPos, objects[j].groupPos) <= objects[i].config.maxRange

\* C17: a LIDAR built from an entry without the channels field has a channel
\* count all the same (a default), or the entry is rejected and no sensor
\* is built from it
C17_ChannelsDefaulted ==
  \A i \in Range(sensors) :
    objects[i].config.type = "lidar" => "channels" \in DOMAIN objects[i].config

\* a step in which the save timer runs its callback
SaveTimerRan == save.timeoutId /\ ~save'.timeoutId

\* C20: every state change made by addSensor, removeSensor, updateSensor,
\* cloneSensor, updateSettings or changeScenario is eventually written to
\* local storage, by a save that runs 500 ms or more after the last change
\* and writes the state current at that moment
C20_ChangesSaved ==
  /\ [][SaveTimerRan => (save'.storage = state /\ clock >= save.due)]_vars
  /\ (save.unsaved ~> ~save.unsaved)

\* the meshes of the world that the distance filter admits
Admitted ==
  LET objs == WorldOf(scan.count, scan.stride)
  IN  {k \in DOMAIN objs :
         2 * (Dist(scan.pos, objs[k].pos) - objs[k].radius) <= 3 * scan.maxRange}

\* distance from the sensor to mesh k of the world
DistanceOf(k) == Dist(scan.pos, WorldOf(scan.count, scan.stride)[k].pos)

\* C21: the targets are admitted meshes (distance - radius <= 1.5 maxRange),
\* all of them or MAX_RAYCAST_TARGETS of them, in ascending order of
\* distance, and no admitted mesh left out is nearer than a target
C21_NearestTargets ==
  scan.stage \in {"done", "returned"} =>
    LET ids == {scan.targets[i].id : i \in DOMAIN scan.targets}
        n == Len(scan.targets)
    IN  /\ ids \subseteq Admitted
        /\ Cardinality(ids) = n
        /\ n = Min(Cardinality(Admitted), MAX_RAYCAST_TARGETS)
        /\ \A i \in 1..(n - 1) :
             DistanceOf(scan.targets[i].id) <= DistanceOf(scan.targets[i + 1].id)
        /\ n > 0 =>
             \A k \in Admitted \ ids : DistanceOf(k) >= DistanceOf(scan.targets[n].id)

\* more meshes are admitted than the cap lets through, and the distance
\* filter has dropped some
C21_Witness ==
  /\ scan.stage = "done"
  /\ Len(scan.targets) = MAX_RAYCAST_TARGETS
  /\ Len(scan.kept) > MAX_RAYCAST_TARGETS
  /\ Len(scan.kept) < scan.count

\* the interval since the last execution of fn has elapsed (or fn never ran)
IntervalElapsed == obs.execs = 0 \/ clock - obs.lastExecTime >= Delay

\* fn has just run for the trigger of this step
RanImmediately ==
  /\ obs'.waiting = 0
  /\ obs'.lastExecKind = "leading"
  /\ obs'.lastExecTime = clock
  /\ obs'.lastExecArgs = obs'.reqArgs

\* C22: triggers that arrive before the interval has elapsed have one
\* deferred run pending, due at last execution time + delay, and it runs
\* with the most recent arguments; a trigger that arrives when the interval
\* has elapsed runs fn immediately
C22_OneDeferredAtBoundary ==
  /\ [](obs.waiting > 0 => thr.timeoutId /\ thr.due = obs.lastExecTime + Delay)
  /\ []((obs.lastExecKind = "trailing" /\ obs.waiting = 0) =>
          obs.lastExecArgs = obs.reqArgs)
  /\ [][(\E a \in Args : Call(a)) => (IntervalElapsed <=> RanImmediately)]_vars

\* Float32BufferAttribute(array, 3).count
ItemCount(len) == len \div 3

\* C23: each ray adds at most one sample, so a completed cycle holds no more
\* samples than rays cast, and the position and the color attribute always
\* hold the same number of entries, three floats each
C23_SamplesWithinRays ==
  /\ scan.buffer.position = scan.buffer.color
  /\ scan.buffer.position % 3 = 0
  /\ scan.positions = scan.colors
  /\ ItemCount(scan.positions) <= scan.ray
  /\ scan.stage = "cast" => ItemCount(scan.buffer.position) <= scan.rays
  /\ scan.stage = "cleared" => ItemCount(scan.buffer.position) = 0

\* a completed cycle in which some rays hit and some did not
C23_Witness ==
  /\ scan.stage = "cast"
  /\ ItemCount(scan.buffer.position) > 0
  /\ ItemCount(scan.buffer.position) < scan.rays

\* the trailing timer of sensor object i runs its callback in this step
TrailingFired(i) == objects[i].thr.timeoutId /\ ~objects'[i].thr.timeoutId

\* C24: a deferred point-cloud run reads the pose and the configuration
\* that are current when it fires
C24_TrailingUsesCurrent ==
  [][\A i \in DOMAIN objects :
       TrailingFired(i) =>
         objects'[i].used = Reading(objects[i].config, objects[i].groupPos)]_vars

\* a deferred run has fired after the pose or the configuration changed
\* again while it was pending
C24_Witness ==
  \E i \in DOMAIN objects :
    /\ objects[i].trailing
    /\ objects[i].used # objects[i].scheduled
    /\ objects[i].used = Reading(objects[i].config, objects[i].groupPos)

\* C25: state.selectedSensorId is null or the id of a sensor in
\* state.sensors
C25_SelectionValid ==
  \/ state.selectedSensorId = NoSensor
  \/ \E k \in DOMAIN state.sensors : state.sensors[k].id = state.selectedSensorId

\* C26: once an App operation has returned, the ids of state.sensors are
\* pairwise distinct and are exactly the ids in the SensorManager's map
C26_StateMatchesManager ==
  ~hung =>
    /\ {state.sensors[k].id : k \in DOMAIN state.sensors} = DOMAIN sensors
    /\ \A j, k \in DOMAIN state.sensors :
         state.sensors[j].id = state.sensors[k].id => j = k

\* C27: whenever the render loop refreshes the preview, the camera that the
\* preview panel holds is the selected sensor and has not been disposed
C27_PreviewIsSelected ==
  RendersPreview =>
    /\ preview.camera = sensors[state.selectedSensorId]
    /\ ~objects[preview.camera].disposed

\* C28: once an operation that loads a scenario has completed, the scenario
\* type of the Scene (floor, grid and markers), the type loaded in the
\* ScenarioManager and state.scenario are the same
C28_ScenarioTypesAgree ==
  (~hung /\ report = "ok") =>
    /\ sceneType = scenarioType
    /\ scenarioType = state.scenario

\* C29: the point cloud of a LIDAR whose config has enabled = false is not
\* visible in the world
C29_DisabledCloudHidden ==
  \A i \in world.clouds :
    ~objects[i].config.enabled => ~objects[i].cloudVisible

\* the entry new is the entry old with exactly the fields of changes replaced
Overridden(old, changes, new) ==
  /\ DOMAIN new = (DOMAIN old) \cup (DOMAIN changes)
  /\ \A f \in DOMAIN new :
       new[f] = IF f \in DOMAIN changes THEN changes[f] ELSE old[f]

\* what App.updateSensor(id, changes) on an existing id does to the state
OnlyThatSensor(id, changes) ==
  LET k == FindIndex(state.sensors, id)
  IN  /\ Len(state'.sensors) = Len(state.sensors)
      /\ \A j \in DOMAIN state.sensors :
           j # k => state'.sensors[j] = state.sensors[j]
      /\ Overridden(state.sensors[k], changes, state'.sensors[k])
      /\ DOMAIN state' = DOMAIN state
      /\ \A f \in (DOMAIN state) \ {"sensors"} : state'[f] = state[f]
      /\ \A j \in DOMAIN objects :
           (id \notin DOMAIN sensors \/ j # sensors[id]) => objects'[j] = objects[j]

\* C30: App.updateSensor(id, changes) on an existing id changes only that
\* sensor: the other entries and their order, the selection, the scenario
\* and the settings stay, and the entry becomes the old configuration
\* overridden by exactly the fields of changes
C30_UpdateFrame ==
  [][\A id \in SensorIds, changes \in Changes, hits \in HitSets :
       (UpdateSensor(id, changes, hits) /\ FindIndex(state.sensors, id) # 0)
         => OnlyThatSensor(id, changes)]_vars

\* the first of two sensors was moved by updateSensor, the second one and
\* the selection are as addSensor left them
C30_Witness ==
  /\ Len(state.sensors) = 2
  /\ state.sensors[1].pos = FarAway
  /\ state.sensors[2].pos # FarAway
  /\ state.selectedSensorId = state.sensors[2].id
  /\ report = "ok"

====
